---- MODULE Spec2Model ----
(***************************************************************************)
(* Student-score summarisation: the imperative script                      *)
(* (src/src/1_imperative_summarize.py) and the functional pipeline         *)
(* (src/src/2_fp_summarize.py), both run on the same data frame df.        *)
(*                                                                         *)
(* Numbers.  A Python float is a record [tag, num, den]: tag "float" is    *)
(* the finite value num/den in units of 1/Scale (a score of 89.99 is       *)
(* num = 8999, den = 1 at Scale = 100); sums keep den = 1 and a quotient   *)
(* is kept in lowest terms, so two quotients are equal exactly when the    *)
(* divisions give the same number.  tag "nan" is float('nan'), tag "None"  *)
(* is Python's None, tag "unbound" is a name that has not been assigned.   *)
(*                                                                         *)
(* Rows.  A row of df is [Class, Subject, Score]; the Name column is       *)
(* copied through by both programs and never read, and is left out.        *)
(* Score is the cell as pd.read_csv delivers it: kind "numeric" (a number  *)
(* or numeric text such as "90", float() gives num), kind "text"           *)
(* (non-numeric text such as "SomeError", float() raises ValueError) or    *)
(* kind "missing" (an empty cell, which read_csv delivers as the float     *)
(* nan; float(nan) is nan and raises nothing).                             *)
(***************************************************************************)
EXTENDS Integers, Sequences, FiniteSets

\* ------------------------------------------------------------ bounds
MaxLen == 3
Scale == 100
MaxScore == 100

\* ------------------------------------------------------------ values
Num(v) == [tag |-> "float", num |-> v, den |-> 1]
NaN == [tag |-> "nan", num |-> 0, den |-> 1]
None == [tag |-> "None", num |-> 0, den |-> 1]
Unbound == [tag |-> "unbound", num |-> 0, den |-> 1]

NumericCell(v) == [kind |-> "numeric", num |-> v]
TextCell == [kind |-> "text", num |-> 0]
MissingCell == [kind |-> "missing", num |-> 0]

EmptyDict == [k \in {} |-> Num(0)]
Put(d, k, v) == [x \in (DOMAIN d) \cup {k} |-> IF x = k THEN v ELSE d[x]]

RECURSIVE GCD(_, _)
GCD(a, b) == IF b = 0 THEN a ELSE GCD(b, a % b)

\* a + b on floats: nan is absorbing
Add(a, b) ==
    IF a.tag = "nan" \/ b.tag = "nan" THEN NaN ELSE Num(a.num + b.num)

\* total / count, count > 0: nan / n is nan
Div(total, count) ==
    IF total.tag = "nan" THEN NaN
    ELSE LET g == GCD(IF total.num < 0 THEN -total.num ELSE total.num, count)
         IN [tag |-> "float", num |-> total.num \div g, den |-> count \div g]

\* score >= t for the integer threshold t: every comparison with nan is False
Ge(score, t) == score.tag = "float" /\ score.num >= t * Scale * score.den

\* float(x): the value, or the exception raised
PyFloat(raw) ==
    CASE raw.kind = "numeric" -> [exc |-> "none", val |-> Num(raw.num)]
      [] raw.kind = "missing" -> [exc |-> "none", val |-> NaN]
      [] raw.kind = "text" -> [exc |-> "ValueError", val |-> Unbound]
      [] OTHER -> [exc |-> "TypeError", val |-> Unbound]

\* ------------------------------------------------------------ 2_fp_summarize.py
clean_score(score_value) ==
    IF PyFloat(score_value).exc \in {"ValueError", "TypeError"}
    THEN None
    ELSE PyFloat(score_value).val

\* calculate_grade with the D boundary taken exclusively (score > 60)
calculate_grade_exclusive(s) ==
    IF s = None THEN "Error"
    ELSE IF Ge(s, 90) THEN "A"
    ELSE IF Ge(s, 80) THEN "B"
    ELSE IF Ge(s, 70) THEN "C"
    ELSE IF Ge(s, 60) /\ s.num # 60 * Scale * s.den THEN "D"
    ELSE "F"

calculate_grade(s) ==
    IF s = None THEN "Error"
    ELSE IF Ge(s, 90) THEN "A"
    ELSE IF Ge(s, 80) THEN "B"
    ELSE IF Ge(s, 70) THEN "C"
    ELSE IF Ge(s, 60) THEN "D"
    ELSE "F"

\* Series.apply's result: the mapped values go through pandas' dtype inference.
\* A result holding at least one float (nan included) becomes a float64 Series
\* in which every None is nan; a result of None only stays an object Series.
SeriesApply(values) ==
    IF \E i \in DOMAIN values : values[i].tag \in {"float", "nan"}
    THEN [i \in DOMAIN values |-> IF values[i] = None THEN NaN ELSE values[i]]
    ELSE values

add_grade_column(student_df) ==
    LET cleaned == SeriesApply([i \in DOMAIN student_df |->
                                  clean_score(student_df[i].Score)])
    IN [i \in DOMAIN student_df |->
          [Class |-> student_df[i].Class,
           Subject |-> student_df[i].Subject,
           Score |-> cleaned[i],
           Grade |-> calculate_grade(cleaned[i])]]

\* Series.notna(): neither None nor nan
NotNa(v) == v.tag = "float"

filter_valid_scores(student_df) ==
    SelectSeq(student_df, LAMBDA r : NotNa(r.Score))

RECURSIVE SumScores(_)
SumScores(rows) ==
    IF rows = <<>> THEN Num(0)
    ELSE Add(SumScores(Tail(rows)), Head(rows).Score)

\* Series.mean(): nan for an empty Series (the Series left by the filter holds
\* finite floats only)
SeriesMean(rows) ==
    IF rows = <<>> THEN NaN ELSE Div(SumScores(rows), Len(rows))

\* groupby(col)["Score"].mean().to_dict(): one key per group that has a row
calculate_group_average(student_df, group_column) ==
    LET keys == {student_df[i][group_column] : i \in DOMAIN student_df}
    IN [k \in keys |->
          SeriesMean(SelectSeq(student_df, LAMBDA r : r[group_column] = k))]

pipeline_processing(frame) ==
    LET processed == add_grade_column(frame)
        valid == filter_valid_scores(processed)
    IN [processed_data |-> processed,
        overall_average |-> SeriesMean(valid),
        class_averages |-> calculate_group_average(valid, "Class"),
        subject_averages |-> calculate_group_average(valid, "Subject"),
        valid_count |-> Len(valid),
        total_count |-> Len(processed)]

\* ------------------------------------------------------------ 1_imperative_summarize.py
\* lines 51-56: on ValueError `score` is not assigned and keeps what it held
ScoreConversion(s, row) ==
    LET f == PyFloat(row.Score)
    IN IF f.exc = "ValueError"
       THEN [s EXCEPT !.is_valid_score = FALSE]
       ELSE [s EXCEPT !.score = f.val, !.is_valid_score = TRUE]

\* lines 58-71
GradeCalculation(s) ==
    [s EXCEPT !.grade =
        IF s.is_valid_score
        THEN IF Ge(s.score, 90) THEN "A"
             ELSE IF Ge(s.score, 80) THEN "B"
             ELSE IF Ge(s.score, 70) THEN "C"
             ELSE IF Ge(s.score, 60) THEN "D"
             ELSE "F"
        ELSE "Error"]

\* lines 73-81: reading `score` while it is unbound raises NameError, which
\* nothing catches: the script ends there
RecordConstruction(s, row) ==
    IF s.score = Unbound
    THEN [s EXCEPT !.pc = "NameError"]
    ELSE [s EXCEPT !.students_data =
             Append(@, [Class |-> row.Class, Subject |-> row.Subject,
                        Score |-> s.score, Grade |-> s.grade])]

\* lines 83-101
StatisticsUpdate(s, row) ==
    IF s.is_valid_score
    THEN LET ct == IF row.Class \in DOMAIN s.class_totals
                   THEN s.class_totals ELSE Put(s.class_totals, row.Class, Num(0))
             cc == IF row.Class \in DOMAIN s.class_totals
                   THEN s.class_counts ELSE Put(s.class_counts, row.Class, 0)
             st == IF row.Subject \in DOMAIN s.subject_totals
                   THEN s.subject_totals ELSE Put(s.subject_totals, row.Subject, Num(0))
             sc == IF row.Subject \in DOMAIN s.subject_totals
                   THEN s.subject_counts ELSE Put(s.subject_counts, row.Subject, 0)
         IN [s EXCEPT !.overall_total = Add(@, s.score),
                      !.overall_count = @ + 1,
                      !.class_totals = Put(ct, row.Class, Add(ct[row.Class], s.score)),
                      !.class_counts = Put(cc, row.Class, cc[row.Class] + 1),
                      !.subject_totals = Put(st, row.Subject, Add(st[row.Subject], s.score)),
                      !.subject_counts = Put(sc, row.Subject, sc[row.Subject] + 1)]
    ELSE s

\* lines 44-101: one iteration of the loop
LoopBody(s, row) ==
    LET r == RecordConstruction(GradeCalculation(ScoreConversion(s, row)), row)
    IN IF r.pc = "NameError" THEN r ELSE StatisticsUpdate(r, row)

\* lines 103-112
CalculateAverages(s) ==
    [s EXCEPT !.overall_average =
                  IF s.overall_count > 0
                  THEN Div(s.overall_total, s.overall_count) ELSE Num(0),
              !.class_averages =
                  [c \in DOMAIN s.class_totals |->
                      Div(s.class_totals[c], s.class_counts[c])],
              !.subject_averages =
                  [c \in DOMAIN s.subject_totals |->
                      Div(s.subject_totals[c], s.subject_counts[c])],
              !.pc = "done"]

\* lines 34-41
ImpInit ==
    [score |-> Unbound, is_valid_score |-> FALSE, grade |-> "unbound",
     students_data |-> <<>>,
     class_totals |-> EmptyDict, class_counts |-> EmptyDict,
     subject_totals |-> EmptyDict, subject_counts |-> EmptyDict,
     overall_total |-> Num(0), overall_count |-> 0,
     overall_average |-> Unbound,
     class_averages |-> EmptyDict, subject_averages |-> EmptyDict,
     pc |-> "loop"]

\* ------------------------------------------------------------ state
VARIABLES df, index, imp, fp_pc, processed_df, valid_scores_df, results

vars == <<df, index, imp, fp_pc, processed_df, valid_scores_df, results>>

Classes == {"A01", "A02"}
Subjects == {"Science", "English"}
SampleCells == {NumericCell(60 * Scale), NumericCell(90 * Scale), TextCell, MissingCell}
Rows == [Class : Classes, Subject : Subjects, Score : SampleCells]

RECURSIVE SeqsUpTo(_, _)
SeqsUpTo(S, n) ==
    IF n = 0 THEN {<<>>}
    ELSE LET shorter == SeqsUpTo(S, n - 1)
         IN shorter \cup {Append(q, x) : q \in {t \in shorter : Len(t) = n - 1}, x \in S}

NoResults ==
    [processed_data |-> <<>>, overall_average |-> Unbound,
     class_averages |-> EmptyDict, subject_averages |-> EmptyDict,
     valid_count |-> 0, total_count |-> 0]

Start ==
    /\ index = 0
    /\ imp = ImpInit
    /\ fp_pc = "read"
    /\ processed_df = <<>>
    /\ valid_scores_df = <<>>
    /\ results = NoResults

Init ==
    /\ df \in SeqsUpTo(Rows, MaxLen)
    /\ Start

\* one row, any score from 0 to MaxScore in steps of 1/Scale, or no score
GradeCells ==
    {NumericCell(v) : v \in 0 .. (MaxScore * Scale)} \cup {TextCell, MissingCell}

GradeInit ==
    /\ df \in {<<[Class |-> "A01", Subject |-> "Science", Score |-> c]>> : c \in GradeCells}
    /\ Start

\* ------------------------------------------------------------ actions
\* for index, row in df.iterrows(): the body, lines 44-101
ImpLoop ==
    /\ imp.pc = "loop"
    /\ index < Len(df)
    /\ index' = index + 1
    /\ imp' = LoopBody(imp, df[index + 1])
    /\ UNCHANGED <<df, fp_pc, processed_df, valid_scores_df, results>>

\* the loop is exhausted: lines 103-112
ImpAverages ==
    /\ imp.pc = "loop"
    /\ index = Len(df)
    /\ imp' = CalculateAverages(imp)
    /\ UNCHANGED <<df, index, fp_pc, processed_df, valid_scores_df, results>>

\* pipeline_processing, line 114
FpAddGradeColumn ==
    /\ fp_pc = "read"
    /\ processed_df' = add_grade_column(df)
    /\ fp_pc' = "graded"
    /\ UNCHANGED <<df, index, imp, valid_scores_df, results>>

\* line 116
FpFilterValidScores ==
    /\ fp_pc = "graded"
    /\ valid_scores_df' = filter_valid_scores(processed_df)
    /\ fp_pc' = "filtered"
    /\ UNCHANGED <<df, index, imp, processed_df, results>>

\* lines 118-130
FpStatistics ==
    /\ fp_pc = "filtered"
    /\ results' = [processed_data |-> processed_df,
                   overall_average |-> SeriesMean(valid_scores_df),
                   class_averages |-> calculate_group_average(valid_scores_df, "Class"),
                   subject_averages |-> calculate_group_average(valid_scores_df, "Subject"),
                   valid_count |-> Len(valid_scores_df),
                   total_count |-> Len(processed_df)]
    /\ fp_pc' = "done"
    /\ UNCHANGED <<df, index, imp, processed_df, valid_scores_df>>

ImpNext == ImpLoop \/ ImpAverages
FpNext == FpAddGradeColumn \/ FpFilterValidScores \/ FpStatistics
Next == ImpNext \/ FpNext

Spec == Init /\ [][Next]_vars
SpecGrade == GradeInit /\ [][Next]_vars

\* ------------------------------------------------------------ whole runs
\* the loop of lines 44-101 over rows, stopping at an uncaught exception
RECURSIVE RunLoop(_, _)
RunLoop(s, rows) ==
    IF rows = <<>> \/ s.pc # "loop" THEN s
    ELSE RunLoop(LoopBody(s, Head(rows)), Tail(rows))

\* the script from line 34 to line 112 on the data frame rows
ImpRun(rows) ==
    LET s == RunLoop(ImpInit, rows)
    IN IF s.pc = "loop" THEN CalculateAverages(s) ELSE s

\* what the script prints, lines 117-127
ImpSummary(s, n) ==
    [pc |-> s.pc,
     overall_average |-> s.overall_average,
     class_averages |-> s.class_averages,
     subject_averages |-> s.subject_averages,
     valid_count |-> s.overall_count,
     invalid_count |-> n - s.overall_count]

\* what the pipeline's caller prints, lines 154-164
FpSummary(r) ==
    [overall_average |-> r.overall_average,
     class_averages |-> r.class_averages,
     subject_averages |-> r.subject_averages,
     valid_count |-> r.valid_count,
     invalid_count |-> r.total_count - r.valid_count]

\* ------------------------------------------------------------ properties
GradeLabels == {"A", "B", "C", "D", "F", "Error"}
Rank(g) == CASE g = "A" -> 4 [] g = "B" -> 3 [] g = "C" -> 2 [] g = "D" -> 1 [] OTHER -> 0

\* the grade table of the specification, as half-open ranges, v in units of 1/Scale
TableGrade(v) ==
    CASE v >= 90 * Scale -> "A"
      [] 80 * Scale <= v /\ v < 90 * Scale -> "B"
      [] 70 * Scale <= v /\ v < 80 * Scale -> "C"
      [] 60 * Scale <= v /\ v < 70 * Scale -> "D"
      [] v < 60 * Scale -> "F"

\* float() accepts the cell
Parses(raw) == PyFloat(raw).exc = "none"
\* the cell holds a finite number: the specification's valid score
ValidCell(raw) == raw.kind = "numeric"
\* the normalized score of a cell: the parsed value, Invalid (None) otherwise
NormalizedOf(raw) == IF Parses(raw) THEN PyFloat(raw).val ELSE None

Permutations(n) ==
    {f \in [1 .. n -> 1 .. n] : \A i, j \in 1 .. n : f[i] = f[j] => i = j}
Permuted(rows, f) == [i \in 1 .. Len(rows) |-> rows[f[i]]]

\* the rows the imperative loop has appended a record for
Processed == Len(imp.students_data)

\* C1: in both pipelines a graded record has grade Error exactly when its raw
\* score fails to parse, whatever the other rows of the input are.
C1_GradeErrorIffInvalid ==
    /\ \A i \in 1 .. Processed :
          (imp.students_data[i].Grade = "Error") <=> ~Parses(df[i].Score)
    /\ \A i \in DOMAIN processed_df :
          (processed_df[i].Grade = "Error") <=> ~Parses(df[i].Score)

\* C2: the classifier is total with inclusive lower bounds: Invalid -> Error,
\* >= 90 A, [80, 90) B, [70, 80) C, [60, 70) D, < 60 F (so 90 is A, 80 is B,
\* 70 is C, 60 is D), and one step down in score never raises the grade rank.
\* The imperative classifier reads (is_valid_score, score), calculate_grade
\* reads the cleaned Score.
C2_GradeThresholds ==
    /\ (index > 0) =>
          /\ imp.grade \in GradeLabels
          /\ ~imp.is_valid_score => imp.grade = "Error"
          /\ (imp.is_valid_score /\ imp.score.tag = "float") =>
                /\ imp.grade = TableGrade(imp.score.num)
                /\ imp.score.num = 60 * Scale => imp.grade = "D"
                /\ imp.score.num > 0 =>
                      Rank(GradeCalculation(
                              [imp EXCEPT !.score = Num(imp.score.num - 1)]).grade)
                         <= Rank(imp.grade)
    /\ \A i \in DOMAIN processed_df :
          LET s == processed_df[i].Score
              g == processed_df[i].Grade
          IN /\ g \in GradeLabels
             /\ s = None => g = "Error"
             /\ s.tag = "float" =>
                   /\ g = TableGrade(s.num)
                   /\ s.num = 60 * Scale => g = "D"
                   /\ s.num > 0 => Rank(calculate_grade(Num(s.num - 1))) <= Rank(g)

\* C2 witness: a score of exactly 60 has been graded D by both programs
C2_Witness ==
    /\ index = 1
    /\ df[1].Score = NumericCell(60 * Scale)
    /\ imp.grade = "D"
    /\ fp_pc = "graded"
    /\ processed_df[1].Grade = "D"

\* C3: normalization never raises: a numeric cell gives its number, every other
\* cell (text, missing, empty) gives the Invalid marker, and no run is aborted
\* by a malformed score.
C3_NormalizeNeverAborts ==
    /\ imp.pc # "NameError"
    /\ (index > 0 /\ imp.pc # "NameError") =>
          (imp.is_valid_score <=> ValidCell(df[index].Score))
    /\ \A i \in DOMAIN processed_df :
          IF ValidCell(df[i].Score)
          THEN processed_df[i].Score = Num(df[i].Score.num)
          ELSE ~NotNa(processed_df[i].Score)

\* C4: a processed record with a valid score adds it to the overall, its class's
\* and its subject's accumulator (created at sum 0, count 0 when the key is new),
\* each count grows by one and every other accumulator is unchanged; a record
\* with an invalid score changes no accumulator.  The functional pipeline keeps
\* exactly the valid-score rows for its statistics.
C4_AccumulatorFrame ==
    [][/\ (imp.pc = "loop" /\ index' = index + 1 /\ imp'.pc = "loop") =>
             LET row == df[index']
                 v == Num(row.Score.num)
                 Old(d, k, zero) == IF k \in DOMAIN d THEN d[k] ELSE zero
             IN IF ValidCell(row.Score)
                THEN /\ imp'.overall_total = Add(imp.overall_total, v)
                     /\ imp'.overall_count = imp.overall_count + 1
                     /\ imp'.class_totals =
                           Put(imp.class_totals, row.Class,
                               Add(Old(imp.class_totals, row.Class, Num(0)), v))
                     /\ imp'.class_counts =
                           Put(imp.class_counts, row.Class,
                               Old(imp.class_counts, row.Class, 0) + 1)
                     /\ imp'.subject_totals =
                           Put(imp.subject_totals, row.Subject,
                               Add(Old(imp.subject_totals, row.Subject, Num(0)), v))
                     /\ imp'.subject_counts =
                           Put(imp.subject_counts, row.Subject,
                               Old(imp.subject_counts, row.Subject, 0) + 1)
                ELSE /\ imp'.overall_total = imp.overall_total
                     /\ imp'.overall_count = imp.overall_count
                     /\ imp'.class_totals = imp.class_totals
                     /\ imp'.class_counts = imp.class_counts
                     /\ imp'.subject_totals = imp.subject_totals
                     /\ imp'.subject_counts = imp.subject_counts
       /\ (fp_pc' = "filtered") =>
             \A i \in DOMAIN df :
                ValidCell(df[i].Score) <=>
                   \E j \in DOMAIN valid_scores_df' :
                      valid_scores_df'[j] = processed_df'[i] /\ NotNa(processed_df'[i].Score)
      ]_vars

\* C5: once all records are processed a class or subject key is in the mean
\* mapping exactly when a record with a valid score was seen for it, and no
\* accumulator has count 0.
C5_KeysIffValidScore ==
    LET keys(col) == {df[i][col] : i \in {j \in DOMAIN df : ValidCell(df[j].Score)}}
    IN /\ imp.pc = "done" =>
             /\ DOMAIN imp.class_averages = keys("Class")
             /\ DOMAIN imp.subject_averages = keys("Subject")
             /\ \A c \in DOMAIN imp.class_counts : imp.class_counts[c] > 0
             /\ \A c \in DOMAIN imp.subject_counts : imp.subject_counts[c] > 0
       /\ fp_pc = "done" =>
             /\ DOMAIN results.class_averages = keys("Class")
             /\ DOMAIN results.subject_averages = keys("Subject")

\* C6: the summary (overall mean, class and subject means, valid and invalid
\* counts) of a run is the summary of the run on every reordering of the input.
C6_PermutationInvariant ==
    /\ imp.pc # "loop" =>
          \A f \in Permutations(Len(df)) :
             ImpSummary(ImpRun(Permuted(df, f)), Len(df)) = ImpSummary(imp, Len(df))
    /\ fp_pc = "done" =>
          \A f \in Permutations(Len(df)) :
             FpSummary(pipeline_processing(Permuted(df, f))) = FpSummary(results)

\* the (sum, count) pairs of a run: overall, per class, per subject
Accumulators(s) ==
    [overall |-> <<s.overall_total, s.overall_count>>,
     class |-> [c \in DOMAIN s.class_totals |-> <<s.class_totals[c], s.class_counts[c]>>],
     subject |-> [c \in DOMAIN s.subject_totals |->
                     <<s.subject_totals[c], s.subject_counts[c]>>]]
MergePairs(a, b) ==
    [k \in (DOMAIN a) \cup (DOMAIN b) |->
        IF k \in DOMAIN a /\ k \in DOMAIN b
        THEN <<Add(a[k][1], b[k][1]), a[k][2] + b[k][2]>>
        ELSE IF k \in DOMAIN a THEN a[k] ELSE b[k]]
Merge(x, y) ==
    [overall |-> <<Add(x.overall[1], y.overall[1]), x.overall[2] + y.overall[2]>>,
     class |-> MergePairs(x.class, y.class),
     subject |-> MergePairs(x.subject, y.subject)]

\* C7: aggregating the concatenation of two record sets gives the key-by-key
\* sum of the (sum, count) pairs of the two sets aggregated separately.
C7_ConcatenationIsMerge ==
    imp.pc = "done" =>
       \A k \in 0 .. Len(df) :
          LET a == ImpRun(SubSeq(df, 1, k))
              b == ImpRun(SubSeq(df, k + 1, Len(df)))
          IN /\ a.pc = "done"
             /\ b.pc = "done"
             /\ Accumulators(imp) = Merge(Accumulators(a), Accumulators(b))

\* C8: on an input with no valid score (the empty input included) aggregation
\* completes, with valid_count 0, invalid_count the number of records, no class
\* or subject mean and an undefined (zero or nan) overall mean.
C8_NoValidScore ==
    (\A i \in DOMAIN df : ~ValidCell(df[i].Score)) =>
       /\ imp.pc # "NameError"
       /\ imp.pc = "done" =>
             /\ imp.overall_count = 0
             /\ imp.class_averages = EmptyDict
             /\ imp.subject_averages = EmptyDict
             /\ imp.overall_average \in {Num(0), NaN}
       /\ fp_pc = "done" =>
             /\ results.valid_count = 0
             /\ results.total_count = Len(df)
             /\ results.class_averages = EmptyDict
             /\ results.subject_averages = EmptyDict
             /\ results.overall_average \in {Num(0), NaN}

\* C9: on every input the imperative script and the functional pipeline give
\* the same grades, the same means and the same valid and invalid counts (an
\* undefined overall mean may be 0 in one and nan in the other).
C9_PipelinesEquivalent ==
    (imp.pc # "loop" /\ fp_pc = "done") =>
       /\ imp.pc = "done"
       /\ Len(imp.students_data) = Len(processed_df)
       /\ \A i \in DOMAIN processed_df :
             imp.students_data[i].Grade = processed_df[i].Grade
       /\ imp.overall_count = results.valid_count
       /\ imp.class_averages = results.class_averages
       /\ imp.subject_averages = results.subject_averages
       /\ (results.valid_count > 0) => imp.overall_average = results.overall_average

\* C10: after any prefix of rows students_data holds one record per processed
\* row, in input order, whose Score is the normalized score of that very row
\* (Invalid when it failed to parse), never an earlier row's and never unbound.
C10_RecordScoreIsOwnRow ==
    /\ imp.pc # "NameError"
    /\ Len(imp.students_data) = index
    /\ \A i \in 1 .. Processed :
          /\ imp.students_data[i].Class = df[i].Class
          /\ imp.students_data[i].Subject = df[i].Subject
          /\ imp.students_data[i].Score = NormalizedOf(df[i].Score)

====
